---- MODULE Spec2Model ----
(***************************************************************************)
(* A model of the Oppia editor controllers (oppia/controllers/editor.py)   *)
(* and of the statistics services (oppia/domain/stats_services.py).        *)
(*                                                                         *)
(* Python values are modelled as follows.  None is the string None; a      *)
(* payload is a record whose field `keys' is the set of keys present and   *)
(* whose other fields are the values (a key that is absent reads as None,  *)
(* as dict.get does).  Lists are sequences, dicts are functions.           *)
(***************************************************************************)
EXTENDS Integers, Sequences, FiniteSets, TLC

VARIABLES
    ALLOW_YAML_FILE_UPLOAD, \* feconf.ALLOW_YAML_FILE_UPLOAD
    created,                \* explorations made by exp_services.create_*
    newResp,                \* last request/response of NewExploration.post
    exploration,            \* the stored exploration entity
    expResp,                \* last request/response of ExplorationHandler.put
    state,                  \* the stored state entity
    resolved,               \* answers resolved for the default rule
    stResp,                 \* last request/response of StateHandler.put
    state_ids,              \* exploration id -> exploration.state_ids
    exp_states,             \* state id -> the state (name, widget handlers)
    counters,               \* state id -> its StateCounter
    answer_logs,            \* state id -> rule string -> StateRuleAnswerLog
    imp,                    \* last call/result of get_top_improvable_states
    report                  \* last call/result of export_exploration_stats_to_dict

newVars == <<ALLOW_YAML_FILE_UPLOAD, created, newResp>>
expVars == <<exploration, expResp>>
stateVars == <<state, resolved, stResp>>
dataVars == <<state_ids, exp_states, counters, answer_logs>>
statsVars == <<dataVars, imp, report>>

vars == <<newVars, expVars, stateVars, statsVars>>

None == "<None>"

\* Python truthiness of a string-or-None value.
Falsy(v) == v = None \/ v = ""

Users == {"u1", "u2"}

Last(s) == s[Len(s)]

(***************************************************************************)
(* NewExploration.post                                                     *)
(***************************************************************************)
MaxExplorations == 3

Titles == {None, "", "T1", "T2"}
Categories == {None, "", "Maths"}
YamlContents == {"", "yaml"}

\* exp_services.create_new / create_from_yaml: a new exploration, owned by
\* the requester, with the next free id.
create_exploration(via, user_id, title, category) ==
    [id |-> Len(created) + 1, via |-> via, owner |-> user_id,
     title |-> title, category |-> category]

\* Lines 48-53: which service creates the exploration.
exploration_creator(yaml_content) ==
    IF yaml_content # "" /\ ALLOW_YAML_FILE_UPLOAD
    THEN "create_from_yaml" ELSE "create_new"

\* Mutant: the category is not validated.
new_exploration_error_title_only(title, category) ==
    IF Falsy(title) THEN "InvalidInputException: No title supplied."
    ELSE None

\* Lines 41-44: the validation of the request; None when it is valid.
new_exploration_error(title, category) ==
    IF Falsy(title) THEN "InvalidInputException: No title supplied."
    ELSE IF Falsy(category) THEN "InvalidInputException: No category chosen."
    ELSE None

NewExploration_post(user_id, title, category, yaml_content) ==
    LET error == new_exploration_error(title, category)
        new == create_exploration(exploration_creator(yaml_content),
                                  user_id, title, category)
        request == [handler |-> "NewExploration.post", title |-> title,
                    category |-> category, yaml |-> yaml_content]
    IN
    /\ Len(created) < MaxExplorations
    /\ IF error # None THEN
           /\ newResp' = [request |-> request, error |-> error, json |-> <<>>]
           /\ created' = created
       ELSE
           /\ created' = Append(created, new)
           /\ newResp' = [request |-> request, error |-> None,
                          json |-> <<new.id>>]
    /\ UNCHANGED <<ALLOW_YAML_FILE_UPLOAD, expVars, stateVars, statsVars>>

NewPost ==
    \E u \in Users, t \in Titles, c \in Categories, y \in YamlContents :
        NewExploration_post(u, t, c, y)

(***************************************************************************)
(* ExplorationHandler.put                                                  *)
(***************************************************************************)
ImageIds == {None, "null", "img1"}
EditorLists == {<<>>, <<"u2">>, <<"u2", "u1">>}
ParamItems ==
    {<<>>,
     <<[name |-> "p", obj_type |-> "Int", description |-> "", values |-> <<"1">>]>>}

\* A JSON payload of a PUT request.  `keys' holds those keys whose presence
\* the handler tests; an absent key reads as None (dict.get).
EmptyPayload ==
    [keys |-> {}, is_public |-> FALSE, category |-> None, title |-> None,
     image_id |-> None, editors |-> <<>>, parameters |-> <<>>]

\* The payloads that supply one key.
SinglePayloads ==
    {[EmptyPayload EXCEPT !.keys = {"is_public"}, !.is_public = b] :
        b \in BOOLEAN}
    \cup {[EmptyPayload EXCEPT !.category = c] : c \in {"", "Science"}}
    \cup {[EmptyPayload EXCEPT !.title = t] : t \in {"", "T2"}}
    \cup {[EmptyPayload EXCEPT !.keys = {"image_id"}, !.image_id = i] :
            i \in ImageIds}
    \cup {[EmptyPayload EXCEPT !.editors = e] : e \in EditorLists}
    \cup {[EmptyPayload EXCEPT !.parameters = q] : q \in ParamItems}

\* dict.update: the keys of b added to a.
Merge(a, b) ==
    [keys |-> a.keys \cup b.keys,
     is_public |-> IF "is_public" \in b.keys THEN b.is_public ELSE a.is_public,
     category |-> IF b.category # None THEN b.category ELSE a.category,
     title |-> IF b.title # None THEN b.title ELSE a.title,
     image_id |-> IF "image_id" \in b.keys THEN b.image_id ELSE a.image_id,
     editors |-> IF b.editors # <<>> THEN b.editors ELSE a.editors,
     parameters |-> IF b.parameters # <<>> THEN b.parameters ELSE a.parameters]

\* The payloads of the requests: those that supply at most two keys.
ExpPayloads == {Merge(a, b) : a, b \in SinglePayloads}

\* exploration.add_editor(email)
add_editor(e, email) == [e EXCEPT !.editor_ids = Append(@, email)]

RECURSIVE add_editors(_, _)
add_editors(e, editors) ==
    IF editors = <<>> THEN e
    ELSE add_editors(add_editor(e, Head(editors)), Tail(editors))

\* Mutant: the payload's value is assigned, so that false unpublishes.
update_is_public_assign(e, p) ==
    IF "is_public" \in p.keys
    THEN [e EXCEPT !.is_public = p.is_public] ELSE e

\* Lines 147-148.
update_is_public(e, p) ==
    IF "is_public" \in p.keys /\ p.is_public
    THEN [e EXCEPT !.is_public = TRUE] ELSE e

\* Lines 149-150.
update_category(e, p) ==
    IF ~Falsy(p.category) THEN [e EXCEPT !.category = p.category] ELSE e

\* Mutant: the title is assigned whatever the payload holds.
update_title_always(e, p) == [e EXCEPT !.title = p.title]

\* Lines 151-152.
update_title(e, p) ==
    IF ~Falsy(p.title) THEN [e EXCEPT !.title = p.title] ELSE e

\* Lines 153-154.
update_image_id(e, p) ==
    IF "image_id" \in p.keys
    THEN [e EXCEPT !.image_id = IF p.image_id = "null" THEN None
                                 ELSE p.image_id]
    ELSE e

\* Mutant: any editor may change the editors.
is_any_editor(e, user_id) ==
    \E i \in 1..Len(e.editor_ids) : user_id = e.editor_ids[i]

\* Lines 156-157: the requester is the owner, the first editor.
is_owner(e, user_id) ==
    e.editor_ids # <<>> /\ user_id = e.editor_ids[1]

\* Lines 158-160.
update_editors(e, p) ==
    add_editors([e EXCEPT !.editor_ids = <<>>], p.editors)

\* param_models.Parameter(name=..., obj_type=..., description=..., values=...)
Parameter(item) ==
    [name |-> item.name, obj_type |-> item.obj_type,
     description |-> item.description, values |-> item.values]

\* Lines 164-170.
update_parameters(e, p) ==
    IF p.parameters # <<>>
    THEN [e EXCEPT !.parameters =
              [i \in 1..Len(p.parameters) |-> Parameter(p.parameters[i])]]
    ELSE e

ExplorationHandler_put(user_id, p) ==
    LET e1 == update_image_id(update_title(update_category(
                  update_is_public(exploration, p), p), p), p)
        request == [handler |-> "ExplorationHandler.put", user |-> user_id,
                    payload |-> p]
    IN
    /\ IF p.editors # <<>> /\ ~is_owner(e1, user_id) THEN
           \* the exception leaves the handler before exploration.put()
           /\ expResp' = [request |-> request, put |-> FALSE, error |->
                  "UnauthorizedUserException: Only the exploration owner can add new collaborators."]
           /\ exploration' = exploration
       ELSE
           LET e2 == IF p.editors # <<>> THEN update_editors(e1, p) ELSE e1
               e3 == update_parameters(e2, p)
           IN /\ exploration' = e3      \* exploration.put()
              /\ expResp' = [request |-> request, put |-> TRUE,
                             error |-> None]
    /\ UNCHANGED <<newVars, stateVars, statsVars>>

ExpPut == \E u \in Users, p \in ExpPayloads : ExplorationHandler_put(u, p)

(***************************************************************************)
(* Python values of rule inputs: an int or a unicode string (a sequence of *)
(* one-character strings), and None.                                       *)
(***************************************************************************)
IntV(n) == [type |-> "int", s |-> <<>>, n |-> n]
StrV(s) == [type |-> "unicode", s |-> s, n |-> 0]
NoneV == [type |-> "NoneType", s |-> <<>>, n |-> 0]

\* sub in s, for Python strings.
Contains(sub, s) ==
    \E i \in 1..(Len(s) - Len(sub) + 1) :
        SubSeq(s, i, i + Len(sub) - 1) = sub

Digits == <<"0", "1", "2", "3", "4", "5", "6", "7", "8", "9">>
IsDigit(c) == \E d \in 1..Len(Digits) : Digits[d] = c
DigitValue(c) == (CHOOSE d \in 1..Len(Digits) : Digits[d] = c) - 1

RECURSIVE ParseInt(_)
ParseInt(s) ==
    IF s = <<>> THEN 0
    ELSE 10 * ParseInt(SubSeq(s, 1, Len(s) - 1)) + DigitValue(s[Len(s)])

RECURSIVE Strip(_)
Strip(s) ==
    IF s # <<>> /\ Head(s) = " " THEN Strip(Tail(s))
    ELSE IF s # <<>> /\ s[Len(s)] = " " THEN Strip(SubSeq(s, 1, Len(s) - 1))
    ELSE s

\* Int.normalize(raw): int(raw), or None when int() raises.
Int_normalize(v) ==
    IF v.type = "int" THEN v
    ELSE IF v.type = "unicode" /\ Strip(v.s) # <<>>
            /\ \A i \in 1..Len(Strip(v.s)) : IsDigit(Strip(v.s)[i])
    THEN IntV(ParseInt(Strip(v.s)))
    ELSE NoneV

\* param_type.normalize(value), for the object types of the rule registry.
normalize(param_type, v) ==
    IF param_type = "Int" THEN Int_normalize(v) ELSE NoneV

\* rule_domain.get_obj_type_for_param_name(matched_rule, param_name), with
\* matched_rule = generic_widget.get_rule_by_name('submit', rule_name).
get_obj_type_for_param_name(rule_name, param_name) ==
    IF rule_name = "Equals" /\ param_name = "x" THEN "Int" ELSE None

(***************************************************************************)
(* StateHandler.put                                                        *)
(***************************************************************************)
DEFAULT_RULE_NAME == "Default"     \* feconf.DEFAULT_RULE_NAME

MaxRules == 2

NoInputs == [k \in {} |-> NoneV]
InputX(v) == [k \in {"x"} |-> v]

\* The rules a request may carry (the dicts of interactive_rulesets['submit']).
RuleDict(name, description, inputs) ==
    [name |-> name, description |-> description, inputs |-> inputs,
     dest |-> "END", feedback |-> <<>>]

SubmittedRules ==
    {RuleDict("Default", "Default", InputX(StrV(<<" ", "a">>))),
     RuleDict("Equals", "Default", NoInputs)}
    \cup {RuleDict("Equals", "is equal to {{x}}", InputX(v)) :
            v \in {StrV(<<"1", "2", " ">>), StrV(<<"{", "{", "1">>),
                   StrV(<<"{", "{", "a", "}", "}">>)}}

RECURSIVE SeqsUpTo(_, _)
SeqsUpTo(S, n) ==
    IF n = 0 THEN {<<>>}
    ELSE LET shorter == SeqsUpTo(S, n - 1)
         IN shorter \cup {Append(q, x) : q \in shorter, x \in S}

Rulesets == SeqsUpTo(SubmittedRules, MaxRules)

\* The other keys of the payload.  An optional value is a sequence that is
\* empty (the key is absent, dict.get gives None) or holds the value.
StatePayloadBases ==
    {[keys |-> {}, state_name |-> None, param_changes |-> <<>>,
      interactive_widget |-> None, interactive_params |-> <<>>,
      sticky_interactive_widget |-> <<>>, content |-> <<>>,
      resolved_answers |-> <<>>],
     [keys |-> {"state_name", "param_changes", "resolved_answers"},
      state_name |-> "Renamed",
      param_changes |-> <<[name |-> "p", values |-> <<"2">>]>>,
      interactive_widget |-> "TextInput", interactive_params |-> <<"rows">>,
      sticky_interactive_widget |-> <<TRUE>>,
      content |-> <<[type |-> "text", value |-> "hello"]>>,
      resolved_answers |-> <<"ans">>]}

StatePayloads ==
    {[base |-> b, interactive_rulesets |-> rs] :
        b \in StatePayloadBases,
        rs \in {<<>>} \cup {<<r>> : r \in Rulesets}}

\* state_models.RuleSpec(name=..., inputs=..., dest=..., feedback=...)
RuleSpec(rule) ==
    [name |-> rule.name, inputs |-> rule.inputs, dest |-> rule.dest,
     feedback |-> rule.feedback]

\* Lines 268-269: the value is a string holding both '{{' and '}}'.
is_template(v) ==
    /\ v.type = "unicode"
    /\ Contains(<<"{", "{">>, v.s)
    /\ Contains(<<"}", "}">>, v.s)

\* Mutant: the value is stored as it was submitted.
normalized_param_raw(rule_name, param_name, value) == value

\* Lines 264-272: the value stored for one input of a non-default rule.
normalized_param(rule_name, param_name, value) ==
    IF ~is_template(value)
    THEN normalize(get_obj_type_for_param_name(rule_name, param_name), value)
    ELSE value

\* Lines 253-257: the test made on a rule whose description is 'Default'.
invalid_default_rule(ruleset, rule_ind) ==
    \/ rule_ind # Len(ruleset)
    \/ ruleset[rule_ind].name # DEFAULT_RULE_NAME

\* Lines 246-281: the loop over the rules, from rule_ind on; rule_specs are
\* the rule specs appended so far.
RECURSIVE store_rules(_, _, _)
store_rules(ruleset, rule_ind, rule_specs) ==
    IF rule_ind > Len(ruleset) THEN [error |-> None, rule_specs |-> rule_specs]
    ELSE
    LET rule == ruleset[rule_ind]
        state_rule == RuleSpec(rule)
        inputs == [n \in DOMAIN state_rule.inputs |->
                      normalized_param(state_rule.name, n, state_rule.inputs[n])]
    IN IF rule.description = DEFAULT_RULE_NAME THEN
           IF invalid_default_rule(ruleset, rule_ind)
           THEN [error |-> "ValueError: Invalid ruleset: the last rule should be a default rule.",
                 rule_specs |-> rule_specs]
           ELSE store_rules(ruleset, rule_ind + 1,
                            Append(rule_specs, state_rule))
       ELSE IF \E n \in DOMAIN inputs : inputs[n] = NoneV
           THEN [error |-> "InvalidInputException", rule_specs |-> rule_specs]
           ELSE store_rules(ruleset, rule_ind + 1,
                    Append(rule_specs, [state_rule EXCEPT !.inputs = inputs]))

\* exploration.rename_state(state.id, state_name)
rename_state(st, state_name) == [st EXCEPT !.name = state_name]

\* Lines 217-223, with exp_services.get_or_create_param.
update_param_changes(st, param_changes) ==
    [st EXCEPT !.param_changes =
        [i \in 1..Len(param_changes) |->
            [name |-> param_changes[i].name,
             values |-> param_changes[i].values]]]

\* Lines 214-232: the updates made before the ruleset is read.
update_widget(st, b) ==
    LET s1 == IF "state_name" \in b.keys
              THEN rename_state(st, b.state_name) ELSE st
        s2 == IF "param_changes" \in b.keys
              THEN update_param_changes(s1, b.param_changes) ELSE s1
        s3 == IF ~Falsy(b.interactive_widget)
              THEN [s2 EXCEPT !.widget.widget_id = b.interactive_widget]
              ELSE s2
        s4 == IF b.interactive_params # <<>>
              THEN [s3 EXCEPT !.widget.params = b.interactive_params[1]]
              ELSE s3
    IN IF b.sticky_interactive_widget # <<>>
       THEN [s4 EXCEPT !.widget.sticky = b.sticky_interactive_widget[1]]
       ELSE s4

\* Lines 283-287.
update_content(st, b) ==
    IF b.content # <<>>
    THEN [st EXCEPT !.content =
             [i \in 1..Len(b.content) |->
                 [type |-> b.content[i].type, value |-> b.content[i].value]]]
    ELSE st

\* stats_services.EventHandler.resolve_answers_for_default_rule
resolve_answers_for_default_rule(answers) ==
    resolved \cup {answers[i] : i \in 1..Len(answers)}

StateHandler_put(p) ==
    LET b == p.base
        s1 == update_widget(state, b)
        stored == IF p.interactive_rulesets # <<>>
                  THEN store_rules(p.interactive_rulesets[1], 1, <<>>)
                  ELSE [error |-> None, rule_specs |-> <<>>]
        s2 == IF p.interactive_rulesets # <<>>
              THEN [s1 EXCEPT !.widget.handlers =
                       <<[name |-> "submit",
                          rule_specs |-> stored.rule_specs]>>]
              ELSE s1
        s3 == update_content(s2, b)
        request == [handler |-> "StateHandler.put", payload |-> p]
    IN
    /\ IF stored.error # None THEN
           \* the exception leaves the handler inside the loop
           /\ stResp' = [request |-> request, put |-> FALSE,
                         error |-> stored.error]
           /\ UNCHANGED <<state, resolved>>
       ELSE
           /\ resolved' = IF "resolved_answers" \in b.keys
                          THEN resolve_answers_for_default_rule(
                                   b.resolved_answers)
                          ELSE resolved
           /\ state' = s3               \* state.put()
           /\ stResp' = [request |-> request, put |-> TRUE, error |-> None]
    /\ UNCHANGED <<newVars, expVars, statsVars>>

StatePut == \E p \in StatePayloads : StateHandler_put(p)

(***************************************************************************)
(* stats_services: the data read from the datastore                        *)
(***************************************************************************)
IMPROVE_TYPE_DEFAULT == "default"
IMPROVE_TYPE_INCOMPLETE == "incomplete"
DEFAULT_RULESPEC_STR == "Default"  \* state_models.DEFAULT_RULESPEC_STR
END_DEST == "END"                  \* feconf.END_DEST

ExplorationIds == {"e1", "e2"}
StateIds == {"s1", "s2"}

Min(a, b) == IF a < b THEN a ELSE b

RECURSIVE Sum(_)
Sum(q) == IF q = <<>> THEN 0 ELSE Head(q) + Sum(Tail(q))

\* An answer log is the sequence of the counts of its distinct answers.
\* StateRuleAnswerLog.total_answer_count
total_answer_count(answer_log) == Sum(answer_log)

\* sorted(..., reverse=True) on counts: stable, largest first.
RECURSIVE insert_count(_, _)
insert_count(q, c) ==
    IF q = <<>> THEN <<c>>
    ELSE IF Head(q) >= c THEN <<Head(q)>> \o insert_count(Tail(q), c)
    ELSE <<c>> \o q

RECURSIVE sorted_counts(_)
sorted_counts(q) ==
    IF q = <<>> THEN <<>>
    ELSE insert_count(sorted_counts(SubSeq(q, 1, Len(q) - 1)), q[Len(q)])

\* StateRuleAnswerLog.get_top_answers(N): the N most frequent answers.
get_top_answers(answer_log, N) ==
    SubSeq(sorted_counts(answer_log), 1, Min(N, Len(answer_log)))

\* StateCounter.total_entry_count
total_entry_count(state_id) == counters[state_id].total_entry_count

\* AnswerHandlerInstance.default_rule_spec: the last rule spec.
default_rule_spec(handler) == Last(handler.rule_specs)

\* StateRuleAnswerLog.get(exploration_id, state_id, rule_str)
answer_log_of(state_id, rule_str) ==
    IF rule_str \in DOMAIN answer_logs[state_id]
    THEN answer_logs[state_id][rule_str] ELSE <<>>

(***************************************************************************)
(* get_top_improvable_states                                               *)
(***************************************************************************)
TOP_DEFAULT_ANSWERS == 5

\* Mutant: the threshold itself counts.
reaches_fifth(count, total) == 5 * count >= total

\* count > 0.2 * total_entry_count.  The float product 0.2 * t is t/5
\* rounded, and it is never below t/5; for integers the comparison is
\* that of 5 * count with t.
exceeds_fifth(count, total) == 5 * count > total

\* Mutant: a sort that puts the later of two equal ranks first.
RECURSIVE insert_by_rank_unstable(_, _)
insert_by_rank_unstable(q, x) ==
    IF q = <<>> THEN <<x>>
    ELSE IF Head(q).rank > x.rank
         THEN <<Head(q)>> \o insert_by_rank_unstable(Tail(q), x)
    ELSE <<x>> \o q

\* sorted(records, key=rank, reverse=True): stable, highest rank first.
RECURSIVE insert_by_rank(_, _)
insert_by_rank(q, x) ==
    IF q = <<>> THEN <<x>>
    ELSE IF Head(q).rank >= x.rank THEN <<Head(q)>> \o insert_by_rank(Tail(q), x)
    ELSE <<x>> \o q

RECURSIVE sorted_by_rank(_)
sorted_by_rank(q) ==
    IF q = <<>> THEN <<>>
    ELSE insert_by_rank(sorted_by_rank(SubSeq(q, 1, Len(q) - 1)), q[Len(q)])

\* Lines 157-159: the 'default' flag.
default_flag(state_id) ==
    LET default_count ==
            total_answer_count(answer_log_of(state_id, DEFAULT_RULESPEC_STR))
    IN IF /\ exceeds_fifth(default_count, total_entry_count(state_id))
          /\ default_rule_spec(exp_states[state_id].handlers[1]).dest = state_id
       THEN <<[rank |-> default_count, improve_type |-> IMPROVE_TYPE_DEFAULT]>>
       ELSE <<>>

\* Lines 164-167: the 'incomplete' flag.
incomplete_flag(state_id) ==
    LET no_answer_submitted_count == counters[state_id].no_answer_count
    IN IF exceeds_fifth(no_answer_submitted_count, total_entry_count(state_id))
       THEN <<[rank |-> no_answer_submitted_count,
               improve_type |-> IMPROVE_TYPE_INCOMPLETE]>>
       ELSE <<>>

\* Lines 154-167.
eligible_flags(state_id) == default_flag(state_id) \o incomplete_flag(state_id)

\* Lines 169-175: the flag of the highest rank.
top_flag(flags) ==
    IF flags # <<>> THEN sorted_by_rank(flags)[1]
    ELSE [rank |-> 0, improve_type |-> ""]

\* Lines 142-186: the entry of one state, none when it was never entered.
ranked_state(exploration_id, state_id) ==
    IF total_entry_count(state_id) = 0 THEN <<>>
    ELSE LET flag == top_flag(eligible_flags(state_id))
         IN <<[exp_id |-> exploration_id, state_id |-> state_id,
               state_name |-> exp_states[state_id].name,
               rank |-> flag.rank, type |-> flag.improve_type,
               top_default_answers |->
                   get_top_answers(
                       answer_log_of(state_id, DEFAULT_RULESPEC_STR),
                       TOP_DEFAULT_ANSWERS)]>>

\* Lines 141-186: the loop over the states of one exploration.
RECURSIVE ranked_states_of(_, _)
ranked_states_of(exploration_id, ids) ==
    IF ids = <<>> THEN <<>>
    ELSE ranked_state(exploration_id, Head(ids))
             \o ranked_states_of(exploration_id, Tail(ids))

\* Lines 138-186: the loop over the explorations.
RECURSIVE ranked_states(_)
ranked_states(exploration_ids) ==
    IF exploration_ids = <<>> THEN <<>>
    ELSE ranked_states_of(Head(exploration_ids),
                          state_ids[Head(exploration_ids)])
             \o ranked_states(Tail(exploration_ids))

IsProblemState(st) == st.rank # 0

\* Mutant: the flagged states are not sorted.
problem_states_unsorted(exploration_ids) ==
    SelectSeq(ranked_states(exploration_ids), IsProblemState)

\* Lines 188-191.
problem_states(exploration_ids) ==
    sorted_by_rank(SelectSeq(ranked_states(exploration_ids), IsProblemState))

\* Line 192: problem_states[:N], for N >= 0.
first_N(q, N) == SubSeq(q, 1, Min(N, Len(q)))

get_top_improvable_states(exploration_ids, N) ==
    first_N(problem_states(exploration_ids), N)

MaxN == 2

ExplorationIdLists ==
    {<<>>, <<"e1">>, <<"e1", "e2">>, <<"e2", "e1">>, <<"e1", "e1">>}

GetTopImprovableStates(exploration_ids, N) ==
    /\ imp' = [exploration_ids |-> exploration_ids, N |-> N,
               result |-> get_top_improvable_states(exploration_ids, N)]
    /\ UNCHANGED <<newVars, expVars, stateVars, dataVars, report>>

GetTop ==
    \E ids \in ExplorationIdLists, N \in 0..MaxN :
        GetTopImprovableStates(ids, N)

(***************************************************************************)
(* export_exploration_stats_to_dict (the state_stats part of the report)   *)
(***************************************************************************)
TOP_ANSWERS == 10

Range(q) == {q[i] : i \in 1..Len(q)}

RECURSIVE SumOver(_, _)
SumOver(f, S) ==
    IF S = {} THEN 0
    ELSE LET x == CHOOSE y \in S : TRUE IN f[x] + SumOver(f, S \ {x})

\* Lines 81-88: the keys of answers[state.id]['rules'], str(rule) for every
\* rule spec of every handler of the state.
rule_strs(state_id) ==
    UNION {{r.str : r \in Range(h.rule_specs)} :
              h \in Range(exp_states[state_id].handlers)}

\* Lines 83-88.
top_answers_of(state_id, rule_str) ==
    get_top_answers(answer_log_of(state_id, rule_str), TOP_ANSWERS)

\* Lines 108-111: the answers counted for one rule.
rule_count(state_id, rule_str) == Sum(top_answers_of(state_id, rule_str))

\* Mutant: every rule spec is counted, also one whose string already was.
RECURSIVE count_rule_specs(_, _)
count_rule_specs(state_id, rule_specs) ==
    IF rule_specs = <<>> THEN 0
    ELSE Sum(get_top_answers(answer_log_of(state_id, Head(rule_specs).str),
                             TOP_ANSWERS))
             + count_rule_specs(state_id, Tail(rule_specs))

all_rule_count_per_rule_spec(state_id) ==
    count_rule_specs(state_id, exp_states[state_id].handlers[1].rule_specs)

\* Lines 102, 111: the answers counted over all the rules of the state.
all_rule_count(state_id) ==
    SumOver([r \in rule_strs(state_id) |-> rule_count(state_id, r)],
            rule_strs(state_id))

\* Lines 113-116.
rule_stats(state_id) ==
    LET state_count == total_entry_count(state_id)
    IN [r \in rule_strs(state_id) |->
           [answers |-> top_answers_of(state_id, r),
            this_rule |-> rule_count(state_id, r),
            other_answers |-> state_count - rule_count(state_id, r)]]

\* Lines 118-126.
state_stat(state_id) ==
    LET state_count == total_entry_count(state_id)
    IN [name |-> exp_states[state_id].name,
        count |-> state_count,
        rule_stats |-> rule_stats(state_id),
        no_answer |-> state_count - all_rule_count(state_id),
        answer_given |-> all_rule_count(state_id)]

\* Lines 74-126: one entry per key of the dict answers.
state_stats(exploration_id) ==
    [sid \in Range(state_ids[exploration_id]) |-> state_stat(sid)]

export_exploration_stats_to_dict(exploration_id) ==
    [state_stats |-> state_stats(exploration_id)]

ExportExplorationStats(exploration_id) ==
    /\ report' = [exploration_id |-> exploration_id,
                  stats |-> export_exploration_stats_to_dict(exploration_id)]
    /\ UNCHANGED <<newVars, expVars, stateVars, dataVars, imp>>

Export == \E eid \in ExplorationIds : ExportExplorationStats(eid)

(***************************************************************************)
(* Initial states                                                          *)
(***************************************************************************)
MaxEntry == 5
MaxCount == 2

NoResponse == [request |-> [handler |-> "none"], put |-> FALSE,
               error |-> None, json |-> <<>>]

NewIdle ==
    /\ ALLOW_YAML_FILE_UPLOAD = FALSE
    /\ created = <<>>
    /\ newResp = NoResponse

NewInit ==
    /\ ALLOW_YAML_FILE_UPLOAD \in BOOLEAN
    /\ created = <<>>
    /\ newResp = NoResponse

InitialExplorations ==
    [is_public : BOOLEAN, category : {"Maths"}, title : {"T1"},
     image_id : {None}, editor_ids : {<<>>, <<"u1">>, <<"u1", "u2">>},
     parameters : {<<>>}]

ExpIdle ==
    /\ exploration = [is_public |-> FALSE, category |-> "Maths",
                      title |-> "T1", image_id |-> None,
                      editor_ids |-> <<"u1">>, parameters |-> <<>>]
    /\ expResp = NoResponse

ExpInit ==
    /\ exploration \in InitialExplorations
    /\ expResp = NoResponse

\* A new state: one 'submit' handler holding the default rule.
StateInit ==
    /\ state = [name |-> "State", param_changes |-> <<>>,
                widget |-> [widget_id |-> "NumericInput", params |-> "",
                            sticky |-> FALSE,
                            handlers |-> <<[name |-> "submit", rule_specs |->
                                <<[name |-> DEFAULT_RULE_NAME,
                                   inputs |-> NoInputs, dest |-> "State",
                                   feedback |-> <<>>]>>]>>],
                content |-> <<>>]
    /\ resolved = {}
    /\ stResp = NoResponse

DefaultRule(dest) == [str |-> DEFAULT_RULESPEC_STR, dest |-> dest]
OtherRule == [str |-> "Equals(1)", dest |-> END_DEST]

StateOf(sid, rule_specs) ==
    [name |-> sid, handlers |-> <<[name |-> "submit",
                                   rule_specs |-> rule_specs]>>]

NoCalls ==
    /\ imp = [exploration_ids |-> <<>>, N |-> 0, result |-> <<>>]
    /\ report = [exploration_id |-> None, stats |-> [state_stats |-> <<>>]]

StatsIdle ==
    /\ state_ids = [e \in ExplorationIds |-> <<>>]
    /\ exp_states = [sid \in StateIds |-> StateOf(sid, <<DefaultRule(sid)>>)]
    /\ counters = [sid \in StateIds |->
                      [total_entry_count |-> 0, no_answer_count |-> 0]]
    /\ answer_logs = [sid \in StateIds |-> [r \in {} |-> <<>>]]
    /\ NoCalls

\* The explorations: their state_ids and, for each state, whether the default
\* rule of its first handler leads back to the state.
Layouts ==
    {[state_ids |-> [e \in ExplorationIds |->
                        IF e = "e1" THEN <<"s1", "s2">> ELSE <<>>],
      loops |-> {"s1"}],
     [state_ids |-> [e \in ExplorationIds |->
                        IF e = "e1" THEN <<"s1">> ELSE <<"s2">>],
      loops |-> {"s1", "s2"}],
     [state_ids |-> [e \in ExplorationIds |->
                        IF e = "e1" THEN <<"s1">> ELSE <<"s2">>],
      loops |-> {"s2"}]}

\* A default-rule answer log with n answers in all.
DefaultLogs == {<<>>} \cup {<<n>> : n \in 1..MaxCount}

\* The statistics read by get_top_improvable_states.  A state is entered at
\* least as often as it is answered or left without an answer.
ImproveInit ==
    /\ \E l \in Layouts :
        /\ state_ids = l.state_ids
        /\ exp_states =
               [sid \in StateIds |->
                   StateOf(sid, <<DefaultRule(IF sid \in l.loops THEN sid
                                              ELSE END_DEST)>>)]
    /\ counters \in
           [StateIds -> {c \in [total_entry_count : 0..MaxEntry,
                                no_answer_count : 0..MaxCount] :
                            c.no_answer_count <= c.total_entry_count}]
    /\ answer_logs \in
           [StateIds -> [{DEFAULT_RULESPEC_STR} -> DefaultLogs]]
    /\ \A sid \in StateIds :
           total_answer_count(answer_logs[sid][DEFAULT_RULESPEC_STR])
               <= counters[sid].total_entry_count
    /\ NoCalls

\* The answer logs of the rules of a state.
AnswerLogs == {<<>>, <<1, 3>>, <<1, 1, 1, 1, 1, 1, 1, 1, 1, 1, 2>>}

RuleSpecLists(sid) ==
    {<<DefaultRule(sid)>>, <<OtherRule, DefaultRule(sid)>>,
     <<OtherRule, OtherRule, DefaultRule(END_DEST)>>}

\* The statistics read by export_exploration_stats_to_dict.
ExportInit ==
    /\ state_ids \in {l.state_ids : l \in Layouts}
    /\ exp_states \in
           {[sid \in StateIds |-> StateOf(sid, rs[sid])] :
               rs \in {f \in [StateIds -> UNION {RuleSpecLists(x) : x \in StateIds}] :
                          \A sid \in StateIds : f[sid] \in RuleSpecLists(sid)}}
    /\ counters \in
           [StateIds -> [total_entry_count : 0..MaxEntry,
                         no_answer_count : {0}]]
    /\ answer_logs \in
           {f \in [StateIds -> UNION {[D -> AnswerLogs] :
                       D \in SUBSET {DEFAULT_RULESPEC_STR, OtherRule.str}}] :
               \A sid \in StateIds : DOMAIN f[sid] = rule_strs(sid)}
    /\ NoCalls

(***************************************************************************)
(* Specifications: one per handler or service                              *)
(***************************************************************************)
InitNew == NewInit /\ ExpIdle /\ StateInit /\ StatsIdle
NextNew == NewPost
SpecNew == InitNew /\ [][NextNew]_vars

InitExp == NewIdle /\ ExpInit /\ StateInit /\ StatsIdle
NextExp == ExpPut
SpecExp == InitExp /\ [][NextExp]_vars

InitState == NewIdle /\ ExpIdle /\ StateInit /\ StatsIdle
NextState == StatePut
SpecState == InitState /\ [][NextState]_vars

InitImprove == NewIdle /\ ExpIdle /\ StateInit /\ ImproveInit
NextImprove == GetTop
SpecImprove == InitImprove /\ [][NextImprove]_vars

InitExport == NewIdle /\ ExpIdle /\ StateInit /\ ExportInit
NextExport == Export
SpecExport == InitExport /\ [][NextExport]_vars

\* The handlers act on disjoint data: the whole program is their interleaving.
Init == NewInit /\ ExpInit /\ StateInit /\ ImproveInit
Next == NextNew \/ NextExp \/ NextState \/ NextImprove \/ NextExport
Spec == Init /\ [][Next]_vars

(***************************************************************************)
(* Properties of NewExploration.post                                       *)
(***************************************************************************)

\* C5: a request without a title fails with 'No title supplied.', one with a
\* title and without a category fails with 'No category chosen.', and both
\* create nothing and return no id; any other request creates exactly one
\* exploration, from YAML only when YAML content is supplied and the upload
\* is allowed, and returns its id.
C5_NewExplorationValidated ==
    [][LET r == newResp'
           q == r.request
       IN /\ Falsy(q.title) =>
                 /\ r.error = "InvalidInputException: No title supplied."
                 /\ created' = created /\ r.json = <<>>
          /\ ~Falsy(q.title) /\ Falsy(q.category) =>
                 /\ r.error = "InvalidInputException: No category chosen."
                 /\ created' = created /\ r.json = <<>>
          /\ ~Falsy(q.title) /\ ~Falsy(q.category) =>
                 /\ r.error = None
                 /\ Len(created') = Len(created) + 1
                 /\ SubSeq(created', 1, Len(created)) = created
                 /\ Last(created').via = "create_from_yaml"
                        <=> (q.yaml # "" /\ ALLOW_YAML_FILE_UPLOAD)
                 /\ Last(created').via \in {"create_from_yaml", "create_new"}
                 /\ Last(created').title = q.title
                 /\ Last(created').category = q.category
                 /\ r.json = <<Last(created').id>>
      ]_vars

\* An exploration was created from YAML and a later request without a
\* category was refused.
C5_Witness ==
    /\ created # <<>>
    /\ Last(created).via = "create_from_yaml"
    /\ newResp.request.handler = "NewExploration.post"
    /\ newResp.request.title = "T1"
    /\ newResp.error = "InvalidInputException: No category chosen."

(***************************************************************************)
(* Properties of ExplorationHandler.put                                    *)
(***************************************************************************)
Unauthorized ==
    "UnauthorizedUserException: Only the exploration owner can add new collaborators."

\* C3: a request with a non-empty 'editors' list replaces the editors only
\* when the requester is the first entry of editor_ids; from anyone else
\* (or when editor_ids is empty) it raises UnauthorizedUserException,
\* exploration.put() is not reached and the stored exploration is unchanged.
C3_OnlyOwnerAddsCollaborators ==
    [][LET r == expResp'
           p == r.request.payload
       IN p.editors # <<>> =>
              IF /\ exploration.editor_ids # <<>>
                 /\ r.request.user = exploration.editor_ids[1]
              THEN /\ r.error = None /\ r.put
                   /\ exploration'.editor_ids = p.editors
              ELSE /\ r.error = Unauthorized /\ ~r.put
                   /\ exploration' = exploration
      ]_vars

\* An editor who is not the owner sent editors and a title: the request was
\* refused and the title was not stored.
C3_Witness ==
    /\ expResp.request.handler = "ExplorationHandler.put"
    /\ expResp.error = Unauthorized
    /\ expResp.request.payload.title = "T2"
    /\ exploration.title = "T1"
    /\ Len(exploration.editor_ids) = 2
    /\ expResp.request.user = exploration.editor_ids[2]
    /\ expResp.request.user # exploration.editor_ids[1]

\* C9: a field of the exploration changes only when the payload supplies
\* it: category, title, editors and parameters with a non-empty value,
\* is_public with a true value, image_id with its key (when the key is
\* there the image id becomes the value given, None for 'null').
C9_PartialUpdate ==
    [][LET r == expResp'
           p == r.request.payload
       IN /\ exploration'.category # exploration.category
                 => ~Falsy(p.category) /\ exploration'.category = p.category
          /\ exploration'.title # exploration.title
                 => ~Falsy(p.title) /\ exploration'.title = p.title
          /\ exploration'.editor_ids # exploration.editor_ids
                 => p.editors # <<>>
          /\ exploration'.parameters # exploration.parameters
                 => p.parameters # <<>>
          /\ exploration'.is_public # exploration.is_public
                 => "is_public" \in p.keys /\ p.is_public
          /\ exploration'.image_id # exploration.image_id
                 => "image_id" \in p.keys
          /\ "image_id" \in p.keys /\ r.put
                 => exploration'.image_id =
                        IF p.image_id = "null" THEN None ELSE p.image_id
      ]_vars

\* A request with a title and image_id 'null' changed the title, cleared the
\* image and kept the category and the editors.
C9_Witness ==
    /\ expResp.request.handler = "ExplorationHandler.put"
    /\ expResp.put
    /\ expResp.request.payload.title = "T2"
    /\ expResp.request.payload.category = None
    /\ expResp.request.payload.image_id = "null"
    /\ exploration.title = "T2"
    /\ exploration.image_id = None
    /\ exploration.category = "Maths"
    /\ exploration.editor_ids = <<"u1", "u2">>

\* C10: once the exploration is public it stays public.
C10_PublicationIsOneWay ==
    [][exploration.is_public => exploration'.is_public]_vars

\* A stored request with is_public false left the exploration public.
C10_Witness ==
    /\ expResp.request.handler = "ExplorationHandler.put"
    /\ expResp.put
    /\ "is_public" \in expResp.request.payload.keys
    /\ ~expResp.request.payload.is_public
    /\ exploration.is_public

(***************************************************************************)
(* Properties of StateHandler.put                                          *)
(***************************************************************************)

\* C4: after a request with a non-empty 'submit' ruleset that did not raise,
\* the last rule spec of the 'submit' handler is the default rule and no
\* earlier one is.
C4_LastRuleIsDefault ==
    (/\ stResp.request.handler = "StateHandler.put"
     /\ stResp.error = None
     /\ stResp.request.payload.interactive_rulesets # <<>>
     /\ stResp.request.payload.interactive_rulesets[1] # <<>>)
    => LET rule_specs == state.widget.handlers[1].rule_specs
       IN /\ rule_specs # <<>>
          /\ Last(rule_specs).name = DEFAULT_RULE_NAME
          /\ \A i \in 1..(Len(rule_specs) - 1) :
                 rule_specs[i].name # DEFAULT_RULE_NAME

\* A string that holds both '{{' and '}}'.
HoldsBothBraces(v) ==
    /\ v.type = "unicode"
    /\ \E i \in 1..(Len(v.s) - 1) : v.s[i] = "{" /\ v.s[i + 1] = "{"
    /\ \E i \in 1..(Len(v.s) - 1) : v.s[i] = "}" /\ v.s[i + 1] = "}"

\* The value expected in the store for an input of a non-default rule.
ExpectedInput(rule, n) ==
    IF HoldsBothBraces(rule.inputs[n]) THEN rule.inputs[n]
    ELSE normalize(get_obj_type_for_param_name(rule.name, n), rule.inputs[n])

\* Rule i of the ruleset is a non-default rule with an input that
\* normalizes to None.
FailsToNormalize(ruleset, i) ==
    /\ ruleset[i].description # DEFAULT_RULE_NAME
    /\ \E n \in DOMAIN ruleset[i].inputs :
           ExpectedInput(ruleset[i], n) = NoneV

GivenStates ==
    UNION {{<<eid, sid>> : sid \in Range(state_ids[eid])} :
              eid \in Range(imp.exploration_ids)}

DefaultCount(sid) ==
    IF DEFAULT_RULESPEC_STR \in DOMAIN answer_logs[sid]
    THEN Sum(answer_logs[sid][DEFAULT_RULESPEC_STR]) ELSE 0

NoAnswerCount(sid) == counters[sid].no_answer_count

EntryCount(sid) == counters[sid].total_entry_count

\* (a): more than 20% of the entries hit the default rule, which leads back.
QualifiesDefault(sid) ==
    /\ 5 * DefaultCount(sid) > EntryCount(sid)
    /\ Last(exp_states[sid].handlers[1].rule_specs).dest = sid

\* (b): more than 20% of the entries left no answer.
QualifiesIncomplete(sid) == 5 * NoAnswerCount(sid) > EntryCount(sid)

NeedsImprovement(sid) ==
    /\ EntryCount(sid) > 0
    /\ QualifiesDefault(sid) \/ QualifiesIncomplete(sid)

\* The largest count among the flags the state qualifies for.
LargestCount(sid) ==
    IF QualifiesDefault(sid) /\ QualifiesIncomplete(sid)
    THEN IF DefaultCount(sid) >= NoAnswerCount(sid)
         THEN DefaultCount(sid) ELSE NoAnswerCount(sid)
    ELSE IF QualifiesDefault(sid) THEN DefaultCount(sid)
    ELSE IF QualifiesIncomplete(sid) THEN NoAnswerCount(sid)
    ELSE 0

Reported(pair) ==
    \E i \in 1..Len(imp.result) :
        /\ imp.result[i].exp_id = pair[1]
        /\ imp.result[i].state_id = pair[2]

\* C1: the result has at most N entries, all of them states of the given
\* explorations with a non-zero rank, ordered from the highest rank to the
\* lowest; a flagged state is left out only when N states are returned, none
\* of them of a lower rank.
C1_TopNAcrossExplorations ==
    LET res == imp.result
    IN /\ Len(res) <= imp.N
       /\ \A i \in 1..Len(res) :
              /\ res[i].rank # 0
              /\ <<res[i].exp_id, res[i].state_id>> \in GivenStates
       /\ \A i \in 1..(Len(res) - 1) : res[i].rank >= res[i + 1].rank
       /\ \A pair \in GivenStates :
              NeedsImprovement(pair[2]) /\ ~Reported(pair) =>
                  /\ Len(res) = imp.N
                  /\ \A i \in 1..Len(res) :
                         res[i].rank >= LargestCount(pair[2])

\* Of two explorations the state of the second one is returned and that of
\* the first one, flagged with a lower rank, is left out.
C1_Witness ==
    /\ Len(imp.exploration_ids) = 2
    /\ imp.exploration_ids[1] # imp.exploration_ids[2]
    /\ imp.N = 1
    /\ Len(imp.result) = 1
    /\ imp.result[1].exp_id = imp.exploration_ids[2]
    /\ \E pair \in GivenStates :
           /\ pair[1] = imp.exploration_ids[1]
           /\ NeedsImprovement(pair[2])
           /\ ~Reported(pair)
           /\ LargestCount(pair[2]) < imp.result[1].rank

\* C2, as claimed: a state of the given explorations is reported if and only
\* if it was entered and qualifies under (a) or (b).
C2_ReportedIffNeedsImprovement ==
    \A pair \in GivenStates : Reported(pair) <=> NeedsImprovement(pair[2])

\* C2, amended: every reported state was entered and qualifies under (a) or
\* (b), and such a state is left out only when N states are reported.
C2_ReportedIffNeedsImprovementWithinN ==
    \A pair \in GivenStates :
        /\ Reported(pair) => NeedsImprovement(pair[2])
        /\ NeedsImprovement(pair[2]) => Reported(pair) \/ Len(imp.result) = imp.N

\* A state exactly at 20% on both counts is not reported, although fewer
\* than N states are, and another state is.
C2_Witness ==
    /\ imp.result # <<>>
    /\ Len(imp.result) < imp.N
    /\ \E pair \in GivenStates :
           /\ EntryCount(pair[2]) > 0
           /\ 5 * DefaultCount(pair[2]) = EntryCount(pair[2])
           /\ 5 * NoAnswerCount(pair[2]) = EntryCount(pair[2])
           /\ Last(exp_states[pair[2]].handlers[1].rule_specs).dest = pair[2]
           /\ ~Reported(pair)

\* C6: the rank of a returned state is the largest count among the flags it
\* qualifies for and its type is the flag of that count, 'default' when both
\* flags have it; the type is never empty.
C6_RankAndType ==
    \A i \in 1..Len(imp.result) :
        LET st == imp.result[i]
            sid == st.state_id
        IN /\ st.rank = LargestCount(sid)
           /\ st.type \in {IMPROVE_TYPE_DEFAULT, IMPROVE_TYPE_INCOMPLETE}
           /\ st.type = IMPROVE_TYPE_DEFAULT =>
                  QualifiesDefault(sid) /\ DefaultCount(sid) = st.rank
           /\ st.type = IMPROVE_TYPE_INCOMPLETE =>
                  QualifiesIncomplete(sid) /\ NoAnswerCount(sid) = st.rank
           /\ (/\ QualifiesDefault(sid) /\ QualifiesIncomplete(sid)
               /\ DefaultCount(sid) = NoAnswerCount(sid))
                  => st.type = IMPROVE_TYPE_DEFAULT

\* A returned state qualifies for both flags with equal counts, and another
\* one has the type 'incomplete' although it qualifies for both.
C6_Witness ==
    /\ \E i \in 1..Len(imp.result) :
           LET sid == imp.result[i].state_id
           IN /\ QualifiesDefault(sid) /\ QualifiesIncomplete(sid)
              /\ DefaultCount(sid) = NoAnswerCount(sid)
              /\ imp.result[i].type = IMPROVE_TYPE_DEFAULT
    /\ \E i \in 1..Len(imp.result) :
           LET sid == imp.result[i].state_id
           IN /\ QualifiesDefault(sid) /\ QualifiesIncomplete(sid)
              /\ imp.result[i].type = IMPROVE_TYPE_INCOMPLETE

(***************************************************************************)
(* Properties of export_exploration_stats_to_dict                          *)
(***************************************************************************)

\* C8: state_stats has one entry per state of the exploration; for every
\* rule of the state 'This rule' is the sum of the counts of the reported
\* top answers and 'This rule' + 'Other answers' is the total entry count;
\* 'Answer given' is the sum of 'This rule' over the rules and 'No answer'
\* + 'Answer given' is the total entry count.
C8_ChartData ==
    report.exploration_id # None =>
        LET stats == report.stats.state_stats
        IN /\ DOMAIN stats = Range(state_ids[report.exploration_id])
           /\ \A sid \in DOMAIN stats :
                LET st == stats[sid]
                    rules == DOMAIN st.rule_stats
                IN /\ rules = {exp_states[sid].handlers[1].rule_specs[i].str :
                                i \in 1..Len(exp_states[sid].handlers[1].rule_specs)}
                   /\ \A r \in rules :
                        /\ st.rule_stats[r].this_rule
                               = Sum(st.rule_stats[r].answers)
                        /\ st.rule_stats[r].this_rule
                               + st.rule_stats[r].other_answers
                               = EntryCount(sid)
                   /\ st.answer_given
                          = SumOver([r \in rules |-> st.rule_stats[r].this_rule],
                                    rules)
                   /\ st.no_answer + st.answer_given = EntryCount(sid)

\* The report of an exploration of two states; one has a rule listed twice
\* whose log holds more answers than are reported.
C8_Witness ==
    /\ report.exploration_id # None
    /\ Cardinality(DOMAIN report.stats.state_stats) = 2
    /\ \E sid \in DOMAIN report.stats.state_stats :
           LET st == report.stats.state_stats[sid]
           IN /\ Len(exp_states[sid].handlers[1].rule_specs) = 3
              /\ Cardinality(DOMAIN st.rule_stats) = 2
              /\ Len(st.rule_stats[OtherRule.str].answers) = TOP_ANSWERS
              /\ st.rule_stats[OtherRule.str].this_rule
                     < Sum(answer_logs[sid][OtherRule.str])
              /\ st.rule_stats[DEFAULT_RULESPEC_STR].this_rule > 0
              /\ st.answer_given > st.rule_stats[OtherRule.str].this_rule

====
